---- MODULE Spec2Model ----
(***************************************************************************)
(* Multi-stage compliance analysis pipeline of the PRD geo-compliance      *)
(* system: feature extraction (PRD parser), the per-feature chain of five  *)
(* analysis agents, the state-centric compliance sweep with its risk-based *)
(* strategy and batch fallback, and the conversion of the state-centric    *)
(* results to the feature-centric result list.                             *)
(*                                                                         *)
(* Scores are held in hundredths (0..100 stands for 0.0..1.0).             *)
(***************************************************************************)
EXTENDS Integers, Sequences, FiniteSets, TLC

(* ------------------------------ bounds -------------------------------- *)

\* Largest number of features a generation response may list.
MaxFeatures == 2

\* Largest number of lines of PRD content.
MaxLines == 2

\* How far a description or a requirement list may exceed its cap.
MaxExcess == 2

\* Largest number of recommendations of one feature.
MaxRecs == 9

\* Number of steps into which the confidences a response may report divide
\* the range from 0 to 1.
MaxConfidenceSteps == 4

\* Largest number of renders of the page in one browser session, and of
\* login requests sent in it.
MaxRenders == 3

MaxLogins == 2

\* Largest number of features of an analysed PRD, and largest number of
\* fetchData attempts of one mounted dashboard.
MaxResults == 2

MaxFetches == 2

(* ------------------------- program constants -------------------------- *)

\* The five analysis agents of the per-feature chain, in workflow order.
StageNames ==
    <<"feature_analyzer", "regulation_matcher", "risk_assessor",
      "reasoning_generator", "quality_assurance">>

NumStages == Len(StageNames)

\* Retries the resilient generation call makes after a timeout or error.
MaxRetries == 1

\* The three failure kinds of the Generation Client.
FailureKinds == {"Timeout", "Unavailable", "RateLimited"}

\* Shapes of a text response of the Generation Client, as the tolerant
\* parser sees them: strictly parseable, parseable after delimiter scanning,
\* or unusable.
TextShapes == {"strict", "delimited", "garbage"}

(* ------------------------------- state -------------------------------- *)

VARIABLES
    step,        \* workflow step: "parse", "chain", "sweep", ...
    status,      \* "running" | "completed"
    llmDown,     \* TRUE when the Generation Client fails on every call
    prd,         \* PRD content: a sequence of lines
    features,    \* ordered list of Feature records
    parseCall,   \* the PRD parser's generation call
    chain,       \* per feature: the stage outputs and the call in flight
    chainOrder,  \* feature indices in the order their chains completed
    sweep,       \* per state code: the state's analysis and its results
    sweepOrder,  \* state codes in the order their analyses completed
    feature_compliance_results,  \* the feature-centric result list
    error,       \* the error that ended the run, or "none"
    cancel,      \* the workflow-level cancellation token
    executive_report,            \* the run's ExecutiveReport, or NoReport
    persisted,   \* what crossed the persistence boundary, or NothingSaved
    prompt,      \* the last prompt built from a feature, or NoPrompt
    parsing,     \* the tolerant parse of a response text in progress
    username,    \* localStorage's "username" item, or "none"
    location,    \* the page the browser is at
    view,        \* what the page's component returned at its last render
    login,       \* the login page's requests and their last response
    prdId,       \* Dashboard: the prdId search parameter, or NoPrdId
    loading,     \* Dashboard state: loading
    dashboardData,    \* Dashboard state: dashboardData, or NoData
    selectedFeature,  \* Dashboard state: selectedFeature, or NoFeature
    featureOptions,   \* Dashboard state: featureOptions
    allFeatues,  \* Dashboard state: allFeatues
    fetches,     \* Dashboard: the fetchData attempts so far
    effects,     \* Dashboard: effects of the last render still to run
    board        \* Dashboard: the last render, with the state it saw

vars ==
    <<step, status, llmDown, prd, features, parseCall, chain, chainOrder,
      sweep, sweepOrder, feature_compliance_results,
      error, cancel, executive_report, persisted, prompt, parsing,
      username, location, view, login,
      prdId, loading, dashboardData, selectedFeature, featureOptions,
      allFeatues, fetches, effects, board>>

\* The variables of the mounted Dashboard component.
dashVars ==
    <<prdId, loading, dashboardData, selectedFeature, featureOptions,
      allFeatues, fetches, effects, board>>

\* The variables of the workflow.
workflowVars ==
    <<step, status, llmDown, prd, features, parseCall, chain, chainOrder,
      sweep, sweepOrder, feature_compliance_results,
      error, cancel, executive_report, persisted, prompt>>

\* The variables of the frontend's pages about who is logged in.
authVars == <<username, location, view, login>>

\* The variables of the components that are specified apart from the
\* workflow's steps.
apartVars == <<parsing, authVars, dashVars>>

\* The variables of steps 2 to 6 of the workflow.
sweepVars == <<sweep, sweepOrder, feature_compliance_results>>

\* The variables of cancellation, of steps 5 and 6, and of prompt building.
restVars == <<cancel, executive_report, persisted, prompt, apartVars>>

runVars == <<error, cancel, executive_report, persisted, prompt, apartVars>>

(* --------------------------- PRD and features -------------------------- *)

\* A line of PRD content: a heading or bullet ("h"), running text ("t"), or
\* running text that names precise location tracking ("g").
LineKinds == {"h", "g", "t"}

RECURSIVE SeqsUpTo(_, _)
SeqsUpTo(S, n) ==
    IF n = 0 THEN {<<>>}
    ELSE LET shorter == SeqsUpTo(S, n - 1)
         IN  shorter \cup {Append(s, x) : s \in {t \in shorter : Len(t) = n - 1}, x \in S}

PrdContents == SeqsUpTo(LineKinds, MaxLines)

\* Data-type keyword of a feature that the pattern matching looks at.
Keywords == {"plain", "location"}

Feature(id, kw, synthetic) ==
    [feature_id |-> id, keyword |-> kw, synthetic |-> synthetic]

(* ----------------------- resilient generation call --------------------- *)

\* A call site: idle, a generation call in flight (attempts counts the calls
\* issued for this logical call, failure is the last failure seen), or failed
\* with the failure handed to the caller.
IdleCall == [st |-> "idle", attempts |-> 0, failure |-> "none"]

IssueCall == [st |-> "inflight", attempts |-> 1, failure |-> "none"]

\* Variant: a failed attempt is repeated twice.
MayRetry_twice(call) == call.attempts <= MaxRetries + 1

\* May a failed attempt be repeated?
MayRetry(call) == call.attempts <= MaxRetries

\* The call site after the client reported failure `kind`: one bounded retry,
\* then the failure is handed to the caller.
AfterFailure(call, kind) ==
    IF MayRetry(call)
    THEN [call EXCEPT !.attempts = @ + 1, !.failure = kind]
    ELSE [st |-> "failed", attempts |-> call.attempts, failure |-> kind]

\* What the Generation Client can answer to one call: a failure kind, or a
\* text of some shape.  A client that is down only fails.
Failures == {[kind |-> k] : k \in FailureKinds}

GenOutcomes(down, Texts) == IF down THEN Failures ELSE Failures \cup Texts

IsFailure(o) == "kind" \in DOMAIN o

\* Variant: only an unparseable response is recovered from.
HandledFailures_parse_only == {"parse"}

\* Variant: a rate-limited call is not recovered from.
HandledFailures_no_rate_limit == {"Timeout", "Unavailable", "parse"}

\* The failures a caller recovers from by falling back: the three kinds the
\* client reports and an unparseable response.
HandledFailures == {"Timeout", "Unavailable", "RateLimited", "parse"}

Recoverable(failure) == failure \in HandledFailures

\* A call site whose response could not be parsed: no retry.
ParseFailed(call) ==
    [st |-> "failed", attempts |-> call.attempts, failure |-> "parse"]

(* ----------------------------- PRD parser ------------------------------ *)

\* Text responses to the parser's prompt: a shape and the features listed
\* (by keyword), possibly none.
ParserTexts ==
    {[shape |-> sh, listed |-> l] : sh \in TextShapes, l \in SeqsUpTo(Keywords, MaxFeatures)}

\* Keyword of the text between line i (exclusive) and the next heading.
RECURSIVE SectionKeyword(_, _)
SectionKeyword(content, i) ==
    IF i >= Len(content) \/ content[i + 1] = "h" THEN "plain"
    ELSE IF content[i + 1] = "g" THEN "location"
    ELSE SectionKeyword(content, i + 1)

\* Features in order from a sequence of keywords, ids 1..n.
NumberFeatures(kws, synthetic) ==
    [i \in 1..Len(kws) |-> Feature(i, kws[i], synthetic)]

RECURSIVE SectionKeywords(_, _)
SectionKeywords(content, i) ==
    IF i > Len(content) THEN <<>>
    ELSE IF content[i] = "h"
         THEN <<SectionKeyword(content, i)>> \o SectionKeywords(content, i + 1)
         ELSE SectionKeywords(content, i + 1)

\* Rule-based split on headings and bullets: one feature per heading.
RuleBasedSplit(content) == NumberFeatures(SectionKeywords(content, 1), FALSE)

\* The single synthetic feature wrapping the whole PRD text.
SyntheticFeature(content) ==
    <<Feature(1, SectionKeyword(content, 0), TRUE)>>

\* Variant: fallback parsing is the rule-based split alone.
FallbackParse_split_only(content) == RuleBasedSplit(content)

\* Fallback parsing when generation gave nothing usable.
FallbackParse(content) ==
    IF RuleBasedSplit(content) # <<>> THEN RuleBasedSplit(content)
    ELSE SyntheticFeature(content)

\* Features from a text response: usable when it parses (strictly or after
\* delimiter scanning) and lists at least one feature.
ParseFeatures(content, text) ==
    IF text.shape # "garbage" /\ text.listed # <<>>
    THEN NumberFeatures(text.listed, FALSE)
    ELSE FallbackParse(content)

(* ------------------------- per-feature chain --------------------------- *)

\* Text responses to a stage prompt, by shape.
\* Confidences are in hundredths.  The confidence an agent's response
\* reports in the examples of the notes, and the confidence of an output
\* produced by pattern matching.
TypicalConfidence == 85

FallbackConfidence == 50

StageTexts == {[shape |-> sh, confidence |-> TypicalConfidence] : sh \in TextShapes}

\* Text responses that report any confidence a StageOutput can hold.
ReportedConfidences ==
    {(100 * n) \div MaxConfidenceSteps : n \in 0..MaxConfidenceSteps}

ReportingTexts ==
    {[shape |-> sh, confidence |-> c] : sh \in TextShapes, c \in ReportedConfidences}

\* A stage's output is model-produced when the strict parse or the delimiter
\* scan succeeded, and fallback-produced otherwise.
ProducedVia(shape) ==
    IF shape = "strict" THEN "model"
    ELSE IF shape = "delimited" THEN "model"
    ELSE "fallback"

\* The confidence of an output: the value the response reported, or the
\* fixed fallback confidence.
Confidence(via, reported) == IF via = "fallback" THEN FallbackConfidence ELSE reported

StageOutput(k, fid, via, reported) ==
    [stage_name |-> StageNames[k], feature_id |-> fid, produced_via |-> via,
     confidence |-> Confidence(via, reported)]

\* No stage has emitted an output yet.
NoOutput ==
    [stage_name |-> "none", feature_id |-> 0, produced_via |-> "none", confidence |-> 0]

\* A feature's chain before its first stage.  Each stage's output is the
\* input of the next: the chain holds the latest output, the number of
\* outputs emitted so far and the number of stages started.
NewChain == [output |-> NoOutput, emitted |-> 0, started |-> 0, call |-> IdleCall]

NewChains(fs) == [i \in 1..Len(fs) |-> NewChain]

\* Variant: a stage starts without waiting for the previous one.
StageReady_always(c) == TRUE

\* The next stage of a feature may start once every stage started so far has
\* emitted its output.
StageReady(c) == c.started = c.emitted

\* Variant: the stage writes into the output of the stage before it.
Emit_in_place(c, fid, via, reported) ==
    [c EXCEPT !.output.produced_via = via,
              !.emitted = @ + 1,
              !.call = IdleCall]

\* The chain after the stage in progress emitted its output.
Emit(c, fid, via, reported) ==
    [c EXCEPT !.output = StageOutput(c.started, fid, via, reported),
              !.emitted = @ + 1,
              !.call = IdleCall]

ChainComplete(c) == c.emitted = NumStages

(* ----------------------- state compliance sweep ------------------------ *)

\* The state codes of the reference catalog, in list_all order, and the
\* risk tier the catalog gives each.
AllStates == <<"CA", "TX", "WY">>

StateCodes == {AllStates[n] : n \in 1..Len(AllStates)}

StateTier == [s \in StateCodes |->
                IF s = "CA" THEN "high" ELSE IF s = "TX" THEN "medium" ELSE "low"]

HighRiskStates == {s \in StateCodes : StateTier[s] = "high"}

\* Variant: the two-level scheme of the executive report's risk score.
score_to_risk_level_two_level(score) ==
    IF score >= 60 THEN "low" ELSE "high"

\* Risk level from compliance score (hundredths).
score_to_risk_level(score) ==
    IF score >= 80 THEN "low"
    ELSE IF score >= 50 THEN "medium"
    ELSE IF score >= 20 THEN "high"
    ELSE "critical"

\* Compliance score from the risk score a response reports.
ComplianceFromRisk(risk_score) == 100 - risk_score

\* Risk scores a response may report for a feature.
RiskScores == {15, 95}

StateComplianceScore(s, score, via) ==
    [state_code |-> s, compliance_score |-> score,
     risk_level |-> score_to_risk_level(score), produced_via |-> via]

\* Pattern matching of one feature against one state's regulations: a
\* feature without sensitive keywords is compliant; location data is a
\* significant gap under a comprehensive law, unclear under a medium-risk
\* state's law, and a minor issue where only breach notification applies.
PatternScore(f, s) ==
    IF f.keyword = "plain" THEN 100
    ELSE IF StateTier[s] = "high" THEN 20
    ELSE IF StateTier[s] = "medium" THEN 50
    ELSE 80

\* Does pattern matching leave the feature's compliance in the state unclear?
Ambiguous(f, s) == f.keyword = "location" /\ StateTier[s] = "medium"

PatternEntry(f, s) == StateComplianceScore(s, PatternScore(f, s), "fallback")

FeatureIds(fs) == {fs[i].feature_id : i \in 1..Len(fs)}

FeatureById(fs, fid) == CHOOSE f \in {fs[i] : i \in 1..Len(fs)} : f.feature_id = fid

\* Each feature analysed individually against the state by pattern matching.
fallback_individual_analysis(fs, s) ==
    [fid \in FeatureIds(fs) |-> PatternEntry(FeatureById(fs, fid), s)]

\* Text responses to a batch or validation prompt: a shape and, per feature
\* the response lists, the risk score it reports.
BatchTexts(fs) ==
    {[shape |-> sh, risk |-> r] :
        sh \in TextShapes,
        r \in UNION {[D -> RiskScores] : D \in SUBSET FeatureIds(fs)}}

\* The batch response is read by a strict parse only.
BatchParses(text) == text.shape = "strict"

\* The feature results a parsed batch response lists.
ListedResults(s, text) ==
    [fid \in DOMAIN text.risk |->
        StateComplianceScore(s, ComplianceFromRisk(text.risk[fid]), "model")]

\* Variant: no result validation.
FilledIn_none(fs, listed) == {}

\* Features that get a pattern-matching entry because the response left
\* them out.
FilledIn(fs, listed) == FeatureIds(fs) \ DOMAIN listed

\* Result validation: every feature has an analysis result.
ValidatedResults(fs, s, listed) ==
    [fid \in DOMAIN listed \cup FilledIn(fs, listed) |->
        IF fid \in DOMAIN listed THEN listed[fid]
        ELSE PatternEntry(FeatureById(fs, fid), s)]

\* Results of a validation response: it decides the ambiguous features it
\* lists; every other feature keeps its pattern-matching entry.
ValidationResults(fs, s, text) ==
    [fid \in FeatureIds(fs) |->
        IF /\ BatchParses(text)
           /\ fid \in DOMAIN text.risk
           /\ Ambiguous(FeatureById(fs, fid), s)
        THEN StateComplianceScore(s, ComplianceFromRisk(text.risk[fid]), "model")
        ELSE PatternEntry(FeatureById(fs, fid), s)]

\* A state's analysis: Pending, Batched or Validating (a call in flight),
\* Success, Failed, Fallback, Done.  requests counts the generation requests
\* issued for the state; results holds the state's key of every feature's
\* state_compliance_scores map, and writers the tasks that wrote to it.
NewSweep ==
    [st |-> "Pending", call |-> IdleCall, requests |-> 0, results |-> <<>>,
     writers |-> {}]

\* The record of a state after the task of state `task` wrote `results`
\* under the state's key.
Written(sw, task, results) ==
    [sw EXCEPT !.results = results, !.writers = @ \cup {task}]

\* Variant: one handler around the whole sweep.
FallbackScope_all(s) == StateCodes

\* The states whose results the fallback after a failed batch replaces.
FallbackScope(s) == {s}

\* Variant: an unparseable batch response is treated like a client failure.
BatchParseFailure_retry(sw) ==
    LET c == AfterFailure(sw.call, "parse")
    IN  [sw EXCEPT !.call = c,
                   !.requests = IF c.st = "inflight" THEN @ + 1 ELSE @,
                   !.st = IF c.st = "failed" THEN "Failed" ELSE @]

\* The batch response could not be parsed: no second request, the state's
\* analysis has failed.
BatchParseFailure(sw) == [sw EXCEPT !.st = "Failed", !.call = ParseFailed(@)]

\* State-centric results to feature-centric results, in feature order.
StateScoresOf(sw, fid) ==
    [s \in {t \in StateCodes : fid \in DOMAIN sw[t].results} |-> sw[s].results[fid]]

\* The ordered recommendations of a feature; a recommendation is identified
\* by its number.
RecommendationsFor(f) == IF f.keyword = "location" THEN <<1, 2>> ELSE <<2>>

FeatureComplianceResult(f, c, sw) ==
    [feature |-> f,
     produced_via |-> c.output.produced_via,
     state_compliance_scores |-> StateScoresOf(sw, f.feature_id),
     recommendations |-> RecommendationsFor(f)]

\* Variant: the features are listed as their chains completed.
ResultOrder_completion(fs, order) == order

\* The order in which the features are listed in the result.
ResultOrder(fs, order) == [i \in 1..Len(fs) |-> i]

convert_state_results_to_feature_results(fs, ch, sw, order) ==
    [n \in 1..Len(fs) |->
        FeatureComplianceResult(fs[ResultOrder(fs, order)[n]],
                                ch[ResultOrder(fs, order)[n]], sw)]

\* Variant: the result list is taken as it is.
ResultsComplete_unchecked(fcr) == TRUE

\* Aggregation invariant: every feature has an entry for every state.
ResultsComplete(fcr) ==
    \A n \in 1..Len(fcr) : DOMAIN fcr[n].state_compliance_scores = StateCodes

(* --------------------------- tolerant parsing -------------------------- *)

\* Variant: keyword matching is tried first.
ParseSteps_keyword_first == <<"keyword", "strict", "delimiter">>

\* The steps of the tolerant parse of a response text, in the order they are
\* tried: a strict parse, extraction of a structured substring by delimiter
\* scanning, and keyword matching on the feature's fields.
ParseSteps == <<"strict", "delimiter", "keyword">>

\* Does the step get a result out of the text?  Keyword matching does not
\* look at the text and always gives one.
StepSucceeds(parseStep, text) ==
    IF parseStep = "strict" THEN text.shape = "strict"
    ELSE IF parseStep = "delimiter" THEN text.shape \in {"strict", "delimited"}
    ELSE TRUE

\* No text is being parsed.
NoParsing == [stage |-> 0, text |-> [shape |-> "none", confidence |-> 0],
              tried |-> <<>>, output |-> NoOutput]

\* The parse of a response text by stage k, before its first step.
BeginParsing(k, text) == [stage |-> k, text |-> text, tried |-> <<>>, output |-> NoOutput]

ParsingOver(pg) == pg.output # NoOutput

(* ---------------------------- prompt building -------------------------- *)

\* A prompt is modelled by who built it, by the length of the feature
\* description and the number of technical requirements it includes, and by
\* the length and number the feature came with.  No prompt has been built:
NoPrompt ==
    [builder |-> "none", feature_description |-> 0, technical_requirements |-> 0,
     description_length |-> 0, requirements_count |-> 0]

\* Characters of a feature description, and items of its technical
\* requirements, that a prompt includes.
DescriptionCap == 200

RequirementsCap == 3

\* The jurisdiction sweep's agent.
SweepAgent == "us_state_compliance"

\* Variant: the whole value is included.
Truncate_none(len, cap) == len

\* Length of value[:cap] for a value of length len.
Truncate(len, cap) == IF len > cap THEN cap ELSE len

\* The feature summary of the sweep's batch prompt.
FeatureSummary(desc, reqs) ==
    [builder |-> SweepAgent,
     feature_description |-> Truncate(desc, DescriptionCap),
     technical_requirements |-> Truncate(reqs, RequirementsCap),
     description_length |-> desc, requirements_count |-> reqs]

\* The bounded prompt of stage k of the chain.
StagePrompt(k, desc, reqs) ==
    [builder |-> StageNames[k],
     feature_description |-> Truncate(desc, DescriptionCap),
     technical_requirements |-> Truncate(reqs, RequirementsCap),
     description_length |-> desc, requirements_count |-> reqs]

\* Lengths of the descriptions and of the requirement lists of features:
\* empty, short, and around the cap.
DescriptionLengths == {0, 1} \cup ((DescriptionCap - 1)..(DescriptionCap + MaxExcess))

RequirementCounts == 0..(RequirementsCap + MaxExcess)

(* -------------------------- executive report -------------------------- *)

\* The report lists the top 15 recommendations.
TopRecommendations == 15

\* The report's risk buckets: a score of 0.6 or more is low risk, a score
\* below it is high risk.
ReportLowRisk(score) == score >= 60

FeatureHighRisk(r) ==
    \E s \in DOMAIN r.state_compliance_scores :
       ~ReportLowRisk(r.state_compliance_scores[s].compliance_score)

\* The recommendations of all features, in feature order.
RECURSIVE AllRecommendations(_)
AllRecommendations(fcr) ==
    IF fcr = <<>> THEN <<>>
    ELSE AllRecommendations(SubSeq(fcr, 1, Len(fcr) - 1)) \o fcr[Len(fcr)].recommendations

\* A list without its repeated entries: the first occurrence stays.
RECURSIVE Dedup(_)
Dedup(seq) ==
    IF seq = <<>> THEN <<>>
    ELSE LET front == Dedup(SubSeq(seq, 1, Len(seq) - 1))
             last == seq[Len(seq)]
         IN  IF \E i \in 1..Len(front) : front[i] = last THEN front
             ELSE Append(front, last)

\* Variant: the whole list.
Cap_all(seq, n) == seq

\* The first n entries of a list.
Cap(seq, n) == SubSeq(seq, 1, IF Len(seq) < n THEN Len(seq) ELSE n)

ReportRecommendations(fcr) == Cap(Dedup(AllRecommendations(fcr)), TopRecommendations)

\* The narrative is written by the model when its text is usable, and
\* filled in from the template otherwise.
NarrativeVia(o) ==
    IF IsFailure(o) THEN "template"
    ELSE IF ProducedVia(o.shape) = "model" THEN "model"
    ELSE "template"

NoReport ==
    [generated |-> FALSE, narrative_via |-> "none", high_risk_features |-> 0,
     low_risk_features |-> 0, recommendations |-> <<>>]

generate_executive_report(fcr, via) ==
    [generated |-> TRUE,
     narrative_via |-> via,
     high_risk_features |-> Cardinality({n \in 1..Len(fcr) : FeatureHighRisk(fcr[n])}),
     low_risk_features |-> Cardinality({n \in 1..Len(fcr) : ~FeatureHighRisk(fcr[n])}),
     recommendations |-> ReportRecommendations(fcr)]

\* What the core hands over at the persistence boundary: the WorkflowState
\* and its ExecutiveReport.
NothingSaved ==
    [saved |-> FALSE, status |-> "none", feature_compliance_results |-> <<>>,
     executive_report |-> NoReport]

SavedRun(st, fcr, report) ==
    [saved |-> TRUE, status |-> st, feature_compliance_results |-> fcr,
     executive_report |-> report]

(* ------------------------------ dashboard ----------------------------- *)

\* The dashboard's map value of a state of the selected feature:
\* compliance_score > 0.4 ? 1 : 0.
MapValue(score) == IF score > 40 THEN 1 ELSE 0

\* The dashboard's "Compliant" card counts the states whose value <= 0.4,
\* its "Non-compliant" card those whose value > 0.4 (value in hundredths).
DashboardCompliant(score) == MapValue(score) * 100 <= 40

DashboardNonCompliant(score) == MapValue(score) * 100 > 40

(* ------------------------------ actions -------------------------------- *)

\* An unhandled failure ends the run.
Crash(unchanged) ==
    /\ status' = "failed"
    /\ error' = "UnhandledFailure"
    /\ step' = "done"
    /\ UNCHANGED unchanged

\* Step 1 of the workflow begins: an empty PRD needs no generation call.
ParseStart ==
    /\ step = "parse"
    /\ parseCall.st = "idle"
    /\ IF prd = <<>>
       THEN /\ features' = SyntheticFeature(prd)
            /\ chain' = NewChains(features')
            /\ step' = "chain"
            /\ UNCHANGED parseCall
       ELSE /\ parseCall' = IssueCall
            /\ UNCHANGED <<features, chain, step>>
    /\ UNCHANGED <<status, llmDown, prd, chainOrder, sweepVars, runVars>>

\* The Generation Client answers the parser's call.
ParseReturn ==
    /\ step = "parse"
    /\ parseCall.st = "inflight"
    /\ \E o \in GenOutcomes(llmDown, ParserTexts) :
         IF IsFailure(o)
         THEN /\ parseCall' = AfterFailure(parseCall, o.kind)
              /\ UNCHANGED <<features, chain, step>>
         ELSE /\ features' = ParseFeatures(prd, o)
              /\ chain' = NewChains(features')
              /\ parseCall' = IdleCall
              /\ step' = "chain"
    /\ UNCHANGED <<status, llmDown, prd, chainOrder, sweepVars, runVars>>

\* Generation failed for the parser: fallback parsing.
ParseFallback ==
    /\ step = "parse"
    /\ parseCall.st = "failed"
    /\ IF Recoverable(parseCall.failure)
       THEN /\ features' = FallbackParse(prd)
            /\ chain' = NewChains(features')
            /\ parseCall' = IdleCall
            /\ step' = "chain"
            /\ UNCHANGED <<status, error>>
       ELSE Crash(<<features, chain, parseCall>>)
    /\ UNCHANGED <<llmDown, prd, chainOrder, sweepVars, restVars>>

\* A feature's next agent builds its prompt and calls the Generation Client.
StageStart(i) ==
    /\ step = "chain"
    /\ ~cancel
    /\ chain[i].started < NumStages
    /\ StageReady(chain[i])
    /\ chain' = [chain EXCEPT ![i].started = @ + 1, ![i].call = IssueCall]
    /\ UNCHANGED <<step, status, llmDown, prd, features, parseCall, chainOrder, sweepVars, runVars>>

\* The completion order after feature i's chain moved.
Completed(order, i, c) == IF ChainComplete(c) THEN Append(order, i) ELSE order

\* The Generation Client answers a stage's call: a failure is retried within
\* the bound or handed to the agent; a text is parsed tolerantly.
StageAnswered(i, Texts) ==
    /\ step = "chain"
    /\ chain[i].call.st = "inflight"
    /\ \E o \in GenOutcomes(llmDown, Texts) :
         chain' = [chain EXCEPT ![i] =
                     IF IsFailure(o)
                     THEN [@ EXCEPT !.call = AfterFailure(@, o.kind)]
                     ELSE Emit(@, features[i].feature_id, ProducedVia(o.shape),
                               o.confidence)]
    /\ chainOrder' = Completed(chainOrder, i, chain'[i])
    /\ UNCHANGED <<step, status, llmDown, prd, features, parseCall, sweepVars, runVars>>

StageReturn(i) == StageAnswered(i, StageTexts)

\* The same, for responses that report any confidence.
StageReturnReporting(i) == StageAnswered(i, ReportingTexts)

\* The agent whose call failed falls back to pattern matching.
StageFallback(i) ==
    /\ step = "chain"
    /\ chain[i].call.st = "failed"
    /\ IF Recoverable(chain[i].call.failure)
       THEN /\ chain' = [chain EXCEPT ![i] = Emit(@, features[i].feature_id, "fallback", FallbackConfidence)]
            /\ chainOrder' = Completed(chainOrder, i, chain'[i])
            /\ UNCHANGED <<step, status, error>>
       ELSE Crash(<<chain, chainOrder>>)
    /\ UNCHANGED <<llmDown, prd, features, parseCall, sweepVars, restVars>>

\* Every feature went through its five agents.
ChainDone ==
    /\ step = "chain"
    /\ \A i \in 1..Len(features) : ChainComplete(chain[i])
    /\ step' = "sweep"
    /\ UNCHANGED <<status, llmDown, prd, features, parseCall, chain, chainOrder, sweepVars, runVars>>

\* Variant: every state gets generation-backed batch analysis.
UsesBatch_every_state(s) == TRUE

\* Does the state get generation-backed batch analysis?
UsesBatch(s) == s \in HighRiskStates

\* Variant: one request per feature.
BatchRequests_per_feature(fs) == Len(fs)

\* Generation requests a state's batch analysis issues for the features fs:
\* one call per state, whatever the number of features.
BatchRequests(fs) == 1

NeedsValidation(fs, s) == \E i \in 1..Len(fs) : Ambiguous(fs[i], s)

\* A state's analysis begins: its record is loaded once, then a high-risk
\* state gets one batch request for all features, and any other state is
\* pattern-matched, with a validation request when that leaves doubt.
SweepStart(s) ==
    /\ step = "sweep"
    /\ ~cancel
    /\ sweep[s].st = "Pending"
    /\ IF UsesBatch(s)
       THEN /\ sweep' = [sweep EXCEPT ![s] =
                           [@ EXCEPT !.st = "Batched", !.call = IssueCall,
                                      !.requests = BatchRequests(features)]]
            /\ UNCHANGED sweepOrder
       ELSE IF NeedsValidation(features, s)
       THEN /\ sweep' = [sweep EXCEPT ![s] =
                           [Written(@, s, fallback_individual_analysis(features, s))
                              EXCEPT !.st = "Validating", !.call = IssueCall, !.requests = 1]]
            /\ UNCHANGED sweepOrder
       ELSE /\ sweep' = [sweep EXCEPT ![s] =
                           [Written(@, s, fallback_individual_analysis(features, s))
                              EXCEPT !.st = "Done"]]
            /\ sweepOrder' = Append(sweepOrder, s)
    /\ UNCHANGED <<step, status, llmDown, prd, features, parseCall, chain, chainOrder,
                   feature_compliance_results,
                   runVars>>

\* A request's call site after the client reported a failure.
RequestFailed(sw, kind, failedSt) ==
    LET c == AfterFailure(sw.call, kind)
    IN  [sw EXCEPT !.call = c,
                   !.requests = IF c.st = "inflight" THEN @ + 1 ELSE @,
                   !.st = IF c.st = "failed" THEN failedSt ELSE @]

\* The Generation Client answers a state's batch request.
BatchReturn(s) ==
    /\ step = "sweep"
    /\ sweep[s].st = "Batched"
    /\ \E o \in GenOutcomes(llmDown, BatchTexts(features)) :
         sweep' = [sweep EXCEPT ![s] =
                     IF IsFailure(o) THEN RequestFailed(@, o.kind, "Failed")
                     ELSE IF BatchParses(o)
                     THEN [Written(@, s, ValidatedResults(features, s, ListedResults(s, o)))
                             EXCEPT !.st = "Success", !.call = IdleCall]
                     ELSE BatchParseFailure(@)]
    /\ UNCHANGED <<step, status, llmDown, prd, features, parseCall, chain, chainOrder,
                   sweepOrder, feature_compliance_results,
                   runVars>>

\* The batch failed: each feature is analysed individually.
BatchFallback(s) ==
    /\ step = "sweep"
    /\ sweep[s].st = "Failed"
    /\ IF Recoverable(sweep[s].call.failure)
       THEN /\ sweep' = [t \in StateCodes |->
                           IF t \in FallbackScope(s) /\ sweep[t].st # "Done"
                           THEN [Written(sweep[t], s, fallback_individual_analysis(features, t))
                                   EXCEPT !.st = "Fallback"]
                           ELSE sweep[t]]
            /\ UNCHANGED <<step, status, error>>
       ELSE Crash(<<sweep>>)
    /\ UNCHANGED <<llmDown, prd, features, parseCall, chain, chainOrder,
                   sweepOrder, feature_compliance_results,
                   restVars>>

\* A state's results are final.
SweepFinish(s) ==
    /\ step = "sweep"
    /\ sweep[s].st \in {"Success", "Fallback"}
    /\ sweep' = [sweep EXCEPT ![s] = [@ EXCEPT !.st = "Done", !.call = IdleCall]]
    /\ sweepOrder' = Append(sweepOrder, s)
    /\ UNCHANGED <<step, status, llmDown, prd, features, parseCall, chain, chainOrder,
                   feature_compliance_results,
                   runVars>>

\* The Generation Client answers a state's validation request.
ValidateReturn(s) ==
    /\ step = "sweep"
    /\ sweep[s].st = "Validating"
    /\ sweep[s].call.st = "inflight"
    /\ \E o \in GenOutcomes(llmDown, BatchTexts(features)) :
         sweep' = [sweep EXCEPT ![s] =
                     IF IsFailure(o) THEN RequestFailed(@, o.kind, "Validating")
                     ELSE [Written(@, s, ValidationResults(features, s, o))
                             EXCEPT !.st = "Done", !.call = IdleCall]]
    /\ sweepOrder' = IF sweep'[s].st = "Done" THEN Append(sweepOrder, s) ELSE sweepOrder
    /\ UNCHANGED <<step, status, llmDown, prd, features, parseCall, chain, chainOrder,
                   feature_compliance_results,
                   runVars>>

\* The validation request failed: the pattern-matching results stand.
ValidateFallback(s) ==
    /\ step = "sweep"
    /\ sweep[s].st = "Validating"
    /\ sweep[s].call.st = "failed"
    /\ IF Recoverable(sweep[s].call.failure)
       THEN /\ sweep' = [sweep EXCEPT ![s] = [@ EXCEPT !.st = "Done", !.call = IdleCall]]
            /\ sweepOrder' = Append(sweepOrder, s)
            /\ UNCHANGED <<step, status, error>>
       ELSE Crash(<<sweep, sweepOrder>>)
    /\ UNCHANGED <<llmDown, prd, features, parseCall, chain, chainOrder,
                   feature_compliance_results,
                   restVars>>

\* Every state has been analysed.
SweepDone ==
    /\ step = "sweep"
    /\ \A s \in StateCodes : sweep[s].st = "Done"
    /\ step' = "aggregate"
    /\ UNCHANGED <<status, llmDown, prd, features, parseCall, chain, chainOrder, sweepVars, runVars>>

\* Steps 3 and 4: the state-centric results are converted to the
\* feature-centric list and the run's overall result is produced.  A
\* feature without an entry for some state aborts the run.
Aggregate ==
    /\ step = "aggregate"
    /\ feature_compliance_results' =
          convert_state_results_to_feature_results(features, chain, sweep, chainOrder)
    /\ IF ResultsComplete(feature_compliance_results')
       THEN /\ status' = "completed"
            /\ step' = "report"
            /\ UNCHANGED error
       ELSE /\ status' = "failed"
            /\ error' = "AggregationInvariantViolation"
            /\ step' = "done"
    /\ UNCHANGED <<llmDown, prd, features, parseCall, chain, chainOrder, sweep, sweepOrder, restVars>>

\* Step 5: the executive report of the completed run.
GenerateReport ==
    /\ step = "report"
    /\ \E o \in GenOutcomes(llmDown, StageTexts) :
         IF IsFailure(o) /\ ~Recoverable(o.kind)
         THEN Crash(<<executive_report>>)
         ELSE /\ executive_report' =
                    generate_executive_report(feature_compliance_results, NarrativeVia(o))
              /\ step' = "save"
              /\ UNCHANGED <<status, error>>
    /\ UNCHANGED <<llmDown, prd, features, parseCall, chain, chainOrder, sweepVars,
                   cancel, persisted, prompt, apartVars>>

\* Step 6: the WorkflowState and its report cross the persistence boundary.
SaveResults ==
    /\ step = "save"
    /\ persisted' = SavedRun(status, feature_compliance_results, executive_report)
    /\ step' = "done"
    /\ UNCHANGED <<status, llmDown, prd, features, parseCall, chain, chainOrder, sweepVars,
                   error, cancel, executive_report, prompt, apartVars>>

\* Cancellation of the run is requested from outside.
RequestCancel ==
    /\ ~cancel
    /\ step # "done"
    /\ cancel' = TRUE
    /\ UNCHANGED <<step, status, llmDown, prd, features, parseCall, chain, chainOrder,
                   sweepVars, error, executive_report, persisted, prompt, apartVars>>

\* The points at which the token is checked: between the stages of a
\* feature and between the batches of the states.
AtCheckpoint ==
    IF step = "chain"
    THEN \E i \in 1..Len(chain) : StageReady(chain[i]) /\ chain[i].started < NumStages
    ELSE step = "sweep" /\ \E s \in StateCodes : sweep[s].st = "Pending"

\* Variant: the aborted run's state is saved on the way out.
PersistedOnCancel_partial(ws) == ws

\* What crosses the persistence boundary when the run is aborted with the
\* partial WorkflowState ws: nothing.
PersistedOnCancel(ws) == NothingSaved

\* The token is seen at a checkpoint: the run is aborted and its partial
\* WorkflowState discarded.
ObserveCancel ==
    /\ cancel
    /\ AtCheckpoint
    /\ status' = "cancelled"
    /\ step' = "done"
    /\ persisted' =
          PersistedOnCancel(SavedRun("cancelled", feature_compliance_results, executive_report))
    /\ UNCHANGED <<llmDown, prd, features, parseCall, chain, chainOrder, sweepVars,
                   error, cancel, executive_report, prompt, apartVars>>

(* ------------------------------ frontend ------------------------------- *)

\* The pages behind the login, by their routes "/", "/dashboard" and
\* "/featureLogs", and the login page.
ProtectedPages == {"form", "dashboard", "logs"}

LoginPage == "login"

\* Accounts a user may log in with.
Usernames == {"ann", "bob"}

\* Variant: every page renders for anyone.
LoggedIn_anyone(item) == TRUE

\* !localStorage.getItem("username") is false: the item is there.
LoggedIn(item) == item # "none"

\* Nothing rendered yet in the document.
NoView == [page |-> "none", output |-> "nothing", renders |-> 0]

\* No login request sent yet.
NoLogin == [pending |-> {}, last |-> "none", answered |-> 0]

\* The prdId search parameter is missing.
NoPrdId == 0

\* The PRDs the dashboard is opened for.
PrdIds == {1, 2}

\* dashboardData is null; selectedFeature is null or undefined.
NoData == [prd |-> 0, analysed |-> FALSE, results |-> <<>>]

NoFeature == 0

\* The Dashboard has not rendered.
NoBoard ==
    [mounted |-> FALSE, output |-> "none", prdId |-> NoPrdId, dashboardData |-> NoData,
     selectedFeature |-> NoFeature, featureOptions |-> <<>>, allFeatues |-> <<>>]

\* The state of a Dashboard that is about to mount, for the PRD id p.
DashboardMounts(p) ==
    /\ prdId = p
    /\ loading = TRUE
    /\ dashboardData = NoData
    /\ selectedFeature = NoFeature
    /\ featureOptions = <<>>
    /\ allFeatues = <<>>
    /\ fetches = <<>>
    /\ effects = {}
    /\ board = NoBoard

DashboardUnmounted == DashboardMounts(NoPrdId)

\* The browser shows the login page of a fresh session.
BrowserClosed ==
    /\ username = "none"
    /\ location = LoginPage
    /\ view = NoView
    /\ login = NoLogin
    /\ DashboardUnmounted

\* The component of a protected page is called: without a username it sends
\* the browser to the login page and returns nothing.
RenderPage ==
    /\ location \in ProtectedPages
    /\ view.renders < MaxRenders
    /\ IF LoggedIn(username)
       THEN /\ view' = [page |-> location, output |-> "content", renders |-> view.renders + 1]
            /\ UNCHANGED location
       ELSE /\ view' = [page |-> location, output |-> "nothing", renders |-> view.renders + 1]
            /\ location' = LoginPage
    /\ UNCHANGED <<workflowVars, parsing, dashVars, username, login>>

\* The Sign Out button of a rendered page.
signOut ==
    /\ location \in ProtectedPages
    /\ view.page = location
    /\ view.output = "content"
    /\ username' = "none"
    /\ location' = LoginPage
    /\ UNCHANGED <<workflowVars, parsing, dashVars, view, login>>

\* Sign Out in another tab: the item is gone, this tab's page stays as it is.
SignOutElsewhere ==
    /\ LoggedIn(username)
    /\ username' = "none"
    /\ UNCHANGED <<workflowVars, parsing, dashVars, location, view, login>>

\* The user opens a page, by a link of the rendered page or by its address;
\* the requests of the login page left behind are dropped.
OpenPage(p) ==
    /\ location # p
    /\ location' = p
    /\ login' = [login EXCEPT !.pending = {}]
    /\ UNCHANGED <<workflowVars, parsing, dashVars, username, view>>

\* What the login request can come back with: an ok response, an ok
\* response whose body does not parse, a response that is not ok, or a
\* network error thrown by fetch.
LoginOutcomes == {"ok", "bad_body", "not_ok", "network_error"}

\* Variant: any response logs in.
LoginStores_any(outcome) == outcome \in {"ok", "not_ok"}

\* Does checkLogin reach localStorage.setItem and the redirect?
LoginStores(outcome) == outcome = "ok"

\* The Log In button: checkLogin sends the form's username and password.
checkLogin(name) ==
    /\ location = LoginPage
    /\ login.answered + Cardinality(login.pending) < MaxLogins
    /\ name \notin login.pending
    /\ login' = [login EXCEPT !.pending = @ \cup {name}]
    /\ UNCHANGED <<workflowVars, parsing, dashVars, username, location, view>>

\* The login request comes back and checkLogin goes on.
LoginReturn(name) ==
    /\ location = LoginPage
    /\ name \in login.pending
    /\ \E outcome \in LoginOutcomes :
         IF LoginStores(outcome)
         THEN /\ username' = name
              /\ location' = "form"
              /\ login' = [pending |-> {}, last |-> outcome,
                           answered |-> login.answered + 1]
         ELSE /\ login' = [pending |-> login.pending \ {name}, last |-> outcome,
                           answered |-> login.answered + 1]
              /\ UNCHANGED <<username, location>>
    /\ UNCHANGED <<workflowVars, parsing, dashVars, view>>

(* ------------------------------ Dashboard ------------------------------ *)

\* What fetchDashboardData(p) can resolve with: the PRD without an analysis,
\* or with the feature_compliance_results of n features, numbered by their
\* feature_id.
ResultsOf(p, n) == [i \in 1..n |-> 10 * p + i]

Responses(p) ==
    {[prd |-> p, analysed |-> FALSE, results |-> <<>>]} \cup
    {[prd |-> p, analysed |-> TRUE, results |-> ResultsOf(p, n)] : n \in 0..MaxResults}

\* Variant: the first feature is not selected.
FirstFeature_none(results) == NoFeature

\* feature_compliance_results[0]: undefined for an empty list.
FirstFeature(results) == IF results = <<>> THEN NoFeature ELSE results[1]

\* allFeatues.find(f => f.feature.feature_id === value)
FindFeature(all, value) ==
    IF \E i \in 1..Len(all) : all[i] = value THEN value ELSE NoFeature

\* What the component returns for the state it is called with.  Past the two
\* guards it maps featureOptions to labels that read
\* selectedFeature.state_compliance_scores: a TypeError when there is an
\* option and selectedFeature is null.
DashboardOutput(isLoading, data, options, selected) ==
    IF isLoading THEN "spinner"
    ELSE IF data = NoData THEN "no data"
    ELSE IF options # <<>> /\ selected = NoFeature THEN "TypeError"
    ELSE "dashboard"

\* The effects whose dependencies changed since the render before.
EffectsDue ==
    (IF ~board.mounted \/ board.prdId # prdId THEN {"fetchData"} ELSE {}) \cup
    (IF ~board.mounted \/ board.dashboardData # dashboardData THEN {"dashboardData"} ELSE {})

\* The component renders with the current state, after the effects of the
\* render before have run.
RenderDashboard ==
    /\ location = "dashboard"
    /\ LoggedIn(username)
    /\ effects = {}
    /\ board.output # "TypeError"
    /\ board' =
          [mounted |-> TRUE,
           output |-> DashboardOutput(loading, dashboardData, featureOptions, selectedFeature),
           prdId |-> prdId, dashboardData |-> dashboardData,
           selectedFeature |-> selectedFeature, featureOptions |-> featureOptions,
           allFeatues |-> allFeatues]
    /\ board' # board
    /\ effects' = EffectsDue
    /\ UNCHANGED <<workflowVars, parsing, authVars, prdId, loading, dashboardData,
                   selectedFeature, featureOptions, allFeatues, fetches>>

\* The effect on [prdId]: fetchData up to its await.
EffectFetchData ==
    /\ "fetchData" \in effects
    /\ effects' = effects \ {"fetchData"}
    /\ IF board.prdId = NoPrdId
       THEN /\ loading' = FALSE
            /\ fetches' = Append(fetches, [prdId |-> NoPrdId, st |-> "no id"])
       ELSE /\ loading' = TRUE
            /\ fetches' = Append(fetches, [prdId |-> board.prdId, st |-> "in flight"])
    /\ UNCHANGED <<workflowVars, parsing, authVars, prdId, dashboardData,
                   selectedFeature, featureOptions, allFeatues, board>>

\* Variant: the catch block leaves loading alone.
LoadingAfterFetch_try_only(st, isLoading) == IF st = "ok" THEN FALSE ELSE isLoading

\* Both the try block and the catch block end with setLoading(false).
LoadingAfterFetch(st, isLoading) == FALSE

\* fetchData after its await: the request resolved with the data of the PRD
\* it asked for, or threw.  The two updates of the try block are applied
\* together (the root is made by createRoot).
FetchReturn(n) ==
    /\ n \in 1..Len(fetches)
    /\ fetches[n].st = "in flight"
    /\ \/ /\ \E data \in Responses(fetches[n].prdId) : dashboardData' = data
          /\ fetches' = [fetches EXCEPT ![n].st = "ok"]
       \/ /\ fetches' = [fetches EXCEPT ![n].st = "threw"]
          /\ UNCHANGED dashboardData
    /\ loading' = LoadingAfterFetch(fetches'[n].st, loading)
    /\ UNCHANGED <<workflowVars, parsing, authVars, prdId, selectedFeature,
                   featureOptions, allFeatues, effects, board>>

\* The effect on [dashboardData]: the options and the first feature.
EffectDashboardData ==
    /\ "dashboardData" \in effects
    /\ "fetchData" \notin effects
    /\ effects' = effects \ {"dashboardData"}
    /\ IF board.dashboardData.analysed
       THEN /\ allFeatues' = board.dashboardData.results
            /\ featureOptions' = board.dashboardData.results
            /\ selectedFeature' = FirstFeature(board.dashboardData.results)
       ELSE UNCHANGED <<allFeatues, featureOptions, selectedFeature>>
    /\ UNCHANGED <<workflowVars, parsing, authVars, prdId, loading, dashboardData,
                   fetches, board>>

\* The user picks an option of the rendered Select.
SelectFeature(value) ==
    /\ board.output = "dashboard"
    /\ \E i \in 1..Len(board.featureOptions) : board.featureOptions[i] = value
    /\ selectedFeature' = FindFeature(board.allFeatues, value)
    /\ UNCHANGED <<workflowVars, parsing, authVars, prdId, loading, dashboardData,
                   featureOptions, allFeatues, fetches, effects, board>>

\* The address changes to another prdId while the Dashboard stays mounted.
ChangePrdId(p) ==
    /\ board.mounted
    /\ p # prdId
    /\ Len(fetches) + Cardinality(effects \cap {"fetchData"}) < MaxFetches
    /\ prdId' = p
    /\ UNCHANGED <<workflowVars, parsing, authVars, loading, dashboardData,
                   selectedFeature, featureOptions, allFeatues, fetches, effects, board>>

(* --------------------------- specifications ---------------------------- *)

\* No error, no cancellation, nothing reported, saved or prompted yet.
RunBegins ==
    /\ error = "none"
    /\ cancel = FALSE
    /\ executive_report = NoReport
    /\ persisted = NothingSaved
    /\ prompt = NoPrompt
    /\ parsing = NoParsing
    /\ BrowserClosed

\* A run begins with step 1.
Init ==
    /\ step = "parse"
    /\ status = "running"
    /\ llmDown \in BOOLEAN
    /\ prd \in PrdContents
    /\ features = <<>>
    /\ parseCall = IdleCall
    /\ chain = <<>>
    /\ chainOrder = <<>>
    /\ sweep = [s \in StateCodes |-> NewSweep]
    /\ sweepOrder = <<>>
    /\ feature_compliance_results = <<>>
    /\ RunBegins

NextParse == ParseStart \/ ParseReturn \/ ParseFallback

NextChain ==
    \/ \E i \in 1..Len(features) : StageStart(i)
    \/ \E i \in 1..Len(features) : StageReturn(i)
    \/ \E i \in 1..Len(features) : StageFallback(i)
    \/ ChainDone

NextSweep ==
    \/ \E s \in StateCodes : SweepStart(s)
    \/ \E s \in StateCodes : BatchReturn(s)
    \/ \E s \in StateCodes : BatchFallback(s)
    \/ \E s \in StateCodes : SweepFinish(s)
    \/ \E s \in StateCodes : ValidateReturn(s)
    \/ \E s \in StateCodes : ValidateFallback(s)
    \/ SweepDone
    \/ Aggregate
    \/ GenerateReport
    \/ SaveResults

Next == NextParse \/ NextChain \/ NextSweep

\* The whole workflow.
Spec == Init /\ [][Next]_vars

\* Step 1 alone, for every PRD content.
SpecParse == Init /\ [][NextParse]_vars

\* The whole workflow of a run whose Generation Client fails on every call.
InitDown == Init /\ llmDown

SpecDown == InitDown /\ [][Next]_vars

\* Step 2 on its own.  It begins in a state step 1 ends in: a PRD of n
\* headings, and either the features of the rule-based split or, when the
\* client is up, the features a response listed.
Headings(n) == [i \in 1..n |-> "h"]

Alternating(n) == [i \in 1..n |-> IF i % 2 = 1 THEN "location" ELSE "plain"]

Smaller(a, b) == IF a < b THEN a ELSE b

ParsedStates ==
    /\ status = "running"
    /\ llmDown \in BOOLEAN
    /\ \E n \in 1..Smaller(MaxFeatures, MaxLines) :
         /\ prd = Headings(n)
         /\ features \in
              {FallbackParse(prd)} \cup
              (IF llmDown THEN {}
               ELSE {ParseFeatures(prd, [shape |-> "strict", listed |-> Alternating(n)])})
    /\ parseCall = IdleCall
    /\ sweep = [s \in StateCodes |-> NewSweep]
    /\ sweepOrder = <<>>
    /\ feature_compliance_results = <<>>
    /\ RunBegins

InitChain ==
    /\ step = "chain"
    /\ ParsedStates
    /\ chain = NewChains(features)
    /\ chainOrder = <<>>

SpecChain == InitChain /\ [][NextChain]_vars

\* The chain of a single feature, for responses that report any confidence.
InitStage == InitChain /\ Len(features) = 1

NextStage ==
    \/ \E i \in 1..Len(features) : StageStart(i)
    \/ \E i \in 1..Len(features) : StageReturnReporting(i)
    \/ \E i \in 1..Len(features) : StageFallback(i)
    \/ ChainDone

SpecStage == InitStage /\ [][NextStage]_vars

\* Steps 2 to 4 on their own.  They begin in a state the chains end in:
\* every feature has the output of its last agent, and the chains completed
\* in some order.
FinishedChain(fid, via) ==
    [output |-> StageOutput(NumStages, fid, via, TypicalConfidence), emitted |-> NumStages,
     started |-> NumStages, call |-> IdleCall]

Orders(n) ==
    {o \in [1..n -> 1..n] : \A i, j \in 1..n : o[i] = o[j] => i = j}

InitSweep ==
    /\ step = "sweep"
    /\ ParsedStates
    /\ chain = [i \in 1..Len(features) |->
                  FinishedChain(features[i].feature_id,
                                IF llmDown THEN "fallback" ELSE "model")]
    /\ chainOrder \in Orders(Len(features))

SpecSweep == InitSweep /\ [][NextSweep]_vars

\* The same for runs of one or two features, when every task that can take
\* a step eventually takes one: a generation call returns within its timeout
\* and a task that is ready runs.
InitSweepFair == InitSweep /\ Len(features) <= 2

SpecSweepFair == InitSweepFair /\ [][NextSweep]_vars /\ WF_vars(NextSweep)

\* Step 1 for every PRD content, and the rest of the run when step 1 handed
\* on a single feature.
NextExtract ==
    \/ NextParse
    \/ (Len(features) = 1 /\ NextChain)
    \/ (Len(features) = 1 /\ NextSweep)

SpecExtract == Init /\ [][NextExtract]_vars

\* Prompt building on its own, for features of every length: what a prompt
\* includes depends on nothing but the feature it is built from.
BuildStagePrompt(k) ==
    /\ step = "chain"
    /\ \E desc \in DescriptionLengths : \E reqs \in RequirementCounts :
         prompt' = StagePrompt(k, desc, reqs)
    /\ UNCHANGED <<step, status, llmDown, prd, features, parseCall, chain,
                   chainOrder, sweepVars, error, cancel, executive_report,
                   persisted, apartVars>>

BuildSweepPrompt ==
    /\ step = "chain"
    /\ \E desc \in DescriptionLengths : \E reqs \in RequirementCounts :
         prompt' = FeatureSummary(desc, reqs)
    /\ UNCHANGED <<step, status, llmDown, prd, features, parseCall, chain,
                   chainOrder, sweepVars, error, cancel, executive_report,
                   persisted, apartVars>>

NextPrompt ==
    \/ \E k \in 1..NumStages : BuildStagePrompt(k)
    \/ BuildSweepPrompt

SpecPrompt == InitChain /\ [][NextPrompt]_vars

\* The tolerant parse on its own, step by step, for every stage and every
\* response text.
ParseBegin ==
    /\ step = "chain"
    /\ parsing = NoParsing \/ ParsingOver(parsing)
    /\ \E k \in 1..NumStages : \E text \in ReportingTexts :
         parsing' = BeginParsing(k, text)
    /\ UNCHANGED <<step, status, llmDown, prd, features, parseCall, chain,
                   chainOrder, sweepVars, error, cancel, executive_report,
                   persisted, prompt, authVars, dashVars>>

ParseStep ==
    /\ step = "chain"
    /\ parsing # NoParsing
    /\ ~ParsingOver(parsing)
    /\ LET parseStep == ParseSteps[Len(parsing.tried) + 1]
       IN  parsing' =
              [parsing EXCEPT
                 !.tried = Append(@, parseStep),
                 !.output =
                    IF StepSucceeds(parseStep, parsing.text)
                    THEN StageOutput(parsing.stage, features[1].feature_id,
                                     IF parseStep = "keyword" THEN "fallback" ELSE "model",
                                     parsing.text.confidence)
                    ELSE NoOutput]
    /\ UNCHANGED <<step, status, llmDown, prd, features, parseCall, chain,
                   chainOrder, sweepVars, error, cancel, executive_report,
                   persisted, prompt, authVars, dashVars>>

NextTolerant == ParseBegin \/ ParseStep

SpecTolerant == InitStage /\ [][NextTolerant]_vars

\* Steps 3 to 6 on their own, as the function of the sweep's results that
\* they are: every state is done and holds pattern-matching results for
\* the features in `have`, which may leave features out.
DoneSweep(fs, s, have) ==
    [st |-> "Done", call |-> IdleCall, requests |-> 0,
     results |-> [fid \in have |-> PatternEntry(FeatureById(fs, fid), s)],
     writers |-> IF have = {} THEN {} ELSE {s}]

InitAggregate ==
    /\ step = "aggregate"
    /\ status = "running"
    /\ llmDown \in BOOLEAN
    /\ \E n \in 1..Smaller(MaxFeatures, MaxLines) :
         /\ prd = Headings(n)
         /\ features \in
              {FallbackParse(prd),
               ParseFeatures(prd, [shape |-> "strict", listed |-> Alternating(n)])}
    /\ parseCall = IdleCall
    /\ chain = [i \in 1..Len(features) |-> FinishedChain(features[i].feature_id, "fallback")]
    /\ chainOrder \in Orders(Len(features))
    /\ \E have \in [StateCodes -> SUBSET FeatureIds(features)] :
         sweep = [s \in StateCodes |-> DoneSweep(features, s, have[s])]
    /\ sweepOrder = AllStates
    /\ feature_compliance_results = <<>>
    /\ RunBegins

NextAggregate == Aggregate \/ GenerateReport \/ SaveResults

SpecAggregate == InitAggregate /\ [][NextAggregate]_vars

\* Steps 5 and 6 on their own, for completed runs whose features came with
\* recommendation lists of every kind: n recommendations that repeat after
\* m, numbered from off + 1.
RecList(n, m, off) == [i \in 1..n |-> off + ((i - 1) % m) + 1]

RecommendationLists ==
    {RecList(n, m, off) : n \in {0, 1, MaxRecs - 1, MaxRecs},
                          m \in {1, MaxRecs},
                          off \in {0, MaxRecs - 1}}

InitReport ==
    /\ step = "report"
    /\ status = "completed"
    /\ llmDown \in BOOLEAN
    /\ \E n \in 1..Smaller(MaxFeatures, MaxLines) :
         /\ prd = Headings(n)
         /\ features = FallbackParse(prd)
    /\ parseCall = IdleCall
    /\ chain = [i \in 1..Len(features) |->
                  FinishedChain(features[i].feature_id,
                                IF llmDown THEN "fallback" ELSE "model")]
    /\ chainOrder = [i \in 1..Len(features) |-> i]
    /\ sweep = [s \in StateCodes |-> DoneSweep(features, s, FeatureIds(features))]
    /\ sweepOrder = AllStates
    /\ \E recs \in [1..Len(features) -> RecommendationLists] :
         feature_compliance_results =
            [n \in 1..Len(features) |->
               [convert_state_results_to_feature_results(features, chain, sweep, chainOrder)[n]
                  EXCEPT !.recommendations = recs[n]]]
    /\ RunBegins

NextReport == GenerateReport \/ SaveResults

SpecReport == InitReport /\ [][NextReport]_vars

\* The frontend's pages and the login page, for a browser that starts at any
\* page with or without a username stored, while no run is in progress.
WorkflowIdle ==
    /\ step = "parse"
    /\ status = "running"
    /\ llmDown = FALSE
    /\ prd = <<>>
    /\ features = <<>>
    /\ parseCall = IdleCall
    /\ chain = <<>>
    /\ chainOrder = <<>>
    /\ sweep = [s \in StateCodes |-> NewSweep]
    /\ sweepOrder = <<>>
    /\ feature_compliance_results = <<>>
    /\ error = "none"
    /\ cancel = FALSE
    /\ executive_report = NoReport
    /\ persisted = NothingSaved
    /\ prompt = NoPrompt
    /\ parsing = NoParsing

InitAuth ==
    /\ WorkflowIdle
    /\ username \in Usernames \cup {"none"}
    /\ location \in ProtectedPages \cup {LoginPage}
    /\ view = NoView
    /\ login = NoLogin
    /\ DashboardUnmounted

NextAuth ==
    \/ RenderPage
    \/ signOut
    \/ SignOutElsewhere
    \/ \E p \in ProtectedPages \cup {LoginPage} : OpenPage(p)
    \/ \E name \in Usernames : checkLogin(name)
    \/ \E name \in Usernames : LoginReturn(name)

SpecAuth == InitAuth /\ [][NextAuth]_vars

\* The Dashboard of a logged-in user, mounted for any prdId or none.
InitDashboard ==
    /\ WorkflowIdle
    /\ username \in Usernames
    /\ location = "dashboard"
    /\ view = NoView
    /\ login = NoLogin
    /\ \E p \in PrdIds \cup {NoPrdId} : DashboardMounts(p)

NextDashboard ==
    \/ RenderDashboard
    \/ EffectFetchData
    \/ EffectDashboardData
    \/ \E n \in 1..MaxFetches : FetchReturn(n)
    \/ \E value \in {ResultsOf(p, MaxResults)[i] : p \in PrdIds, i \in 1..MaxResults} :
          SelectFeature(value)
    \/ \E p \in PrdIds \cup {NoPrdId} : ChangePrdId(p)

SpecDashboard == InitDashboard /\ [][NextDashboard]_vars

\* The same, when React runs every render and effect that is due and every
\* request resolves or throws in the end.
SpecDashboardFair ==
    /\ SpecDashboard
    /\ WF_vars(RenderDashboard)
    /\ WF_vars(EffectFetchData)
    /\ WF_vars(EffectDashboardData)
    /\ \A n \in 1..MaxFetches : WF_vars(FetchReturn(n))

\* The workflow of a run that may be cancelled at any moment (its client is
\* down, so that every call site takes its shortest way).
NextCancel == Next \/ RequestCancel \/ ObserveCancel

SpecCancel == InitDown /\ [][NextCancel]_vars

\* The run whose client is down, with every enabled step eventually taken:
\* the workflow is a single process that runs until it returns.
SpecDownFair == SpecDown /\ WF_vars(Next)

\* The number of features the run's output reports.
total_features_analyzed == Len(feature_compliance_results)

(* ------------------------------ properties ----------------------------- *)

\* The records of state s in the sweep, and all StateComplianceScore records
\* of the run's output.
SweepEntries == UNION {{sweep[s].results[fid] : fid \in DOMAIN sweep[s].results} : s \in StateCodes}

OutputEntries ==
    UNION {{feature_compliance_results[n].state_compliance_scores[s] :
               s \in DOMAIN feature_compliance_results[n].state_compliance_scores} :
           n \in 1..Len(feature_compliance_results)}

\* C1: once the sweep is over every feature has a result in every state,
\* the run completes, and every feature of the completed run's output has a
\* state_compliance_scores entry for every state the catalog lists.
C1_EveryStateScored ==
    /\ step \in {"aggregate", "done"} =>
         \A s \in StateCodes : DOMAIN sweep[s].results = FeatureIds(features)
    /\ step = "done" => status = "completed"
    /\ status = "completed" =>
         /\ Len(feature_compliance_results) = Len(features)
         /\ \A n \in 1..Len(feature_compliance_results) :
               \A s \in StateCodes :
                  /\ s \in DOMAIN feature_compliance_results[n].state_compliance_scores
                  /\ feature_compliance_results[n].state_compliance_scores[s].state_code = s

\* A completed run of two features whose batch response for CA listed one
\* feature only: the other's entry was filled in.
C1_Witness ==
    /\ status = "completed"
    /\ Len(feature_compliance_results) = 2
    /\ \E n, m \in 1..2 :
         /\ feature_compliance_results[n].state_compliance_scores["CA"].produced_via = "model"
         /\ feature_compliance_results[m].state_compliance_scores["CA"].produced_via = "fallback"

\* C2: the risk_level of every StateComplianceScore is fixed by its
\* compliance_score: low from 0.8, medium from 0.5, high from 0.2, critical
\* below.
RiskLevelMatches(e) ==
    /\ e.compliance_score >= 80 => e.risk_level = "low"
    /\ (e.compliance_score >= 50 /\ e.compliance_score < 80) => e.risk_level = "medium"
    /\ (e.compliance_score >= 20 /\ e.compliance_score < 50) => e.risk_level = "high"
    /\ e.compliance_score < 20 => e.risk_level = "critical"

EveryEntryFallback ==
    /\ Len(feature_compliance_results) >= 1
    /\ \A n \in 1..Len(feature_compliance_results) :
          \A s \in StateCodes :
             /\ s \in DOMAIN feature_compliance_results[n].state_compliance_scores
             /\ feature_compliance_results[n].state_compliance_scores[s].produced_via = "fallback"

IndividuallyMatched(s) ==
    /\ DOMAIN sweep[s].results = {features[i].feature_id : i \in 1..Len(features)}
    /\ \A i \in 1..Len(features) :
          LET e == sweep[s].results[features[i].feature_id]
          IN  /\ e.produced_via = "fallback"
              /\ e.state_code = s
              /\ e.compliance_score = PatternScore(features[i], s)

\* C4: a batch response that does not parse sends the state to the
\* fallback, where each feature is pattern-matched individually; no request
\* is issued in the step that finds the parse failure, nor at any time after
\* the state's batch has failed.
C4_ParseFailureNoReissue ==
    [][\A s \in StateCodes :
          /\ sweep'[s].call.failure = "parse" =>
                /\ sweep'[s].requests = sweep[s].requests
                /\ sweep'[s].st \in {"Failed", "Fallback"}
          /\ (sweep[s].st = "Failed" /\ sweep[s].call.failure = "parse" /\ sweep'[s] # sweep[s]) =>
                /\ sweep'[s].st = "Fallback"
                /\ IndividuallyMatched(s)'
          /\ sweep[s].st \in {"Failed", "Fallback", "Done"} =>
                /\ sweep'[s].requests = sweep[s].requests
                /\ sweep'[s].st \in {"Failed", "Fallback", "Done"}]_vars

\* CA fell back after one batch request whose response did not parse, with
\* two features to analyse.
C4_Witness ==
    /\ sweep["CA"].st = "Fallback"
    /\ sweep["CA"].call.failure = "parse"
    /\ sweep["CA"].requests = 1
    /\ Len(features) = 2
    /\ IndividuallyMatched("CA")

\* C5: the step in which a state's batch fails or falls back changes the
\* record of no other state.
C5_FailureFrame ==
    [][\A s \in StateCodes :
          (sweep'[s] # sweep[s] /\ sweep'[s].st \in {"Failed", "Fallback"}) =>
             \A t \in StateCodes \ {s} : sweep'[t] = sweep[t]]_vars

\* CA fell back while TX holds a validated result and WY is still pending.
C5_Witness ==
    /\ sweep["CA"].st = "Fallback"
    /\ sweep["TX"].st = "Done"
    /\ \E fid \in DOMAIN sweep["TX"].results : sweep["TX"].results[fid].produced_via = "model"
    /\ sweep["WY"].st = "Pending"

\* The call sites of the run.
CallSites ==
    {parseCall} \cup {chain[i].call : i \in 1..Len(chain)}
                \cup {sweep[s].call : s \in StateCodes}

\* C6: a logical generation call is attempted at most twice (one retry); a
\* call site hands a client failure to its caller only after the retry; a
\* state issues at most two requests.
C6_AtMostOneRetry ==
    /\ \A c \in CallSites :
          /\ c.attempts <= 2
          /\ (c.st = "failed" /\ c.failure \in FailureKinds) => c.attempts = 2
    /\ \A s \in StateCodes : sweep[s].requests <= 2

\* The parser's call, a stage's call and a batch request each failed twice
\* and were handed to the fallback.
C6_Witness ==
    /\ sweep["CA"].st = "Fallback"
    /\ sweep["CA"].call.attempts = 2
    /\ sweep["CA"].call.failure \in FailureKinds
    /\ sweep["CA"].requests = 2
    /\ \E i \in 1..Len(chain) : chain[i].output.produced_via = "fallback"

\* C7: Timeout, Unavailable and RateLimited never end the run as failed, and
\* the caller of a call that failed with any of them falls back in its next
\* step, to a result that does not depend on the kind: the parser to
\* fallback parsing, an agent to its fallback output, a batch to individual
\* pattern matching, a validation to the pattern-matching results.
C7_FailureKindsAlike ==
    [][/\ status' # "failed"
       /\ (parseCall.st = "failed" /\ parseCall.failure \in FailureKinds) =>
             /\ features' = (IF RuleBasedSplit(prd) # <<>> THEN RuleBasedSplit(prd)
                             ELSE SyntheticFeature(prd))
             /\ parseCall' = IdleCall
       /\ \A i \in 1..Len(chain) :
             (chain[i].call.st = "failed" /\ chain[i].call.failure \in FailureKinds
                /\ chain'[i] # chain[i]) =>
                /\ chain'[i].output = [stage_name |-> StageNames[chain[i].started],
                                       feature_id |-> features[i].feature_id,
                                       produced_via |-> "fallback",
                                       confidence |-> FallbackConfidence]
                /\ chain'[i].call = IdleCall
       /\ \A s \in StateCodes :
             (sweep[s].call.st = "failed" /\ sweep[s].call.failure \in FailureKinds
                /\ sweep'[s] # sweep[s]) =>
                /\ sweep'[s].requests = sweep[s].requests
                /\ sweep'[s].st \in {"Fallback", "Done"}
                /\ IndividuallyMatched(s)']_vars

\* Two call sites failed with different kinds, one of them RateLimited.
C7_Witness ==
    /\ sweep["CA"].st = "Failed"
    /\ sweep["CA"].call.failure = "RateLimited"
    /\ sweep["TX"].st = "Validating"
    /\ sweep["TX"].call.st = "failed"
    /\ sweep["TX"].call.failure = "Timeout"
    /\ \E i \in 1..Len(chain) : chain[i].output.produced_via = "fallback"

\* C8: every feature's StageOutputs appear in the order feature_analyzer,
\* regulation_matcher, risk_assessor, reasoning_generator,
\* quality_assurance: a stage starts only when the one before it has
\* emitted its output, whatever the other features' chains are doing.
StageOrder ==
    <<"feature_analyzer", "regulation_matcher", "risk_assessor",
      "reasoning_generator", "quality_assurance">>

C8_StagesInOrder ==
    /\ [](\A i \in 1..Len(chain) :
             /\ chain[i].emitted <= chain[i].started
             /\ chain[i].started <= chain[i].emitted + 1
             /\ chain[i].started <= 5
             /\ chain[i].emitted > 0 =>
                   /\ chain[i].output.stage_name = StageOrder[chain[i].emitted]
                   /\ chain[i].output.feature_id = features[i].feature_id)
    /\ [][\A i \in 1..Len(chain) :
             /\ chain'[i].started # chain[i].started =>
                   /\ chain'[i].started = chain[i].started + 1
                   /\ chain[i].emitted = chain[i].started
             /\ chain'[i].emitted # chain[i].emitted =>
                   /\ chain'[i].emitted = chain[i].emitted + 1
                   /\ chain'[i].output.stage_name = StageOrder[chain[i].emitted + 1]]_vars

\* The second feature's chain is complete while the first feature's third
\* stage is in flight.
C8_Witness ==
    /\ Len(chain) = 2
    /\ chain[2].emitted = 5
    /\ chain[2].output.stage_name = "quality_assurance"
    /\ chain[1].started = 3
    /\ chain[1].emitted = 2
    /\ chain[1].output.stage_name = "regulation_matcher"
    /\ chainOrder = <<2>>

\* C9: the extractor hands on at least one feature for every PRD and never
\* fails the run; when generation fails the features are those of the
\* rule-based split (one per heading), or one synthetic feature if the split
\* finds none; an empty PRD gives exactly one synthetic feature and the run
\* reports total_features_analyzed = 1.
HeadingCount == Cardinality({i \in 1..Len(prd) : prd[i] = "h"})

C9_ExtractorNeverEmpty ==
    /\ [](step # "parse" =>
             /\ Len(features) >= 1
             /\ \A i \in 1..Len(features) : features[i].feature_id = i)
    /\ []((prd = <<>> /\ step # "parse") =>
             /\ Len(features) = 1
             /\ features[1].synthetic)
    /\ []((prd = <<>> /\ step = "done") =>
             /\ status = "completed"
             /\ total_features_analyzed = 1)
    /\ [][step = "parse" =>
             /\ status' = "running"
             /\ parseCall.st = "failed" =>
                   IF HeadingCount > 0
                   THEN /\ Len(features') = HeadingCount
                        /\ \A i \in 1..Len(features') : ~features'[i].synthetic
                   ELSE /\ Len(features') = 1
                        /\ features'[1].synthetic]_vars

\* A completed run whose PRD has text but no heading and whose generation
\* failed: one synthetic feature was analysed.
C9_Witness ==
    /\ llmDown
    /\ prd # <<>>
    /\ HeadingCount = 0
    /\ status = "completed"
    /\ features[1].synthetic
    /\ total_features_analyzed = 1

C11_OneWriterPerCell ==
    /\ [](\A s \in StateCodes :
             /\ sweep[s].writers \subseteq {s}
             /\ sweep[s].results # <<>> => sweep[s].writers = {s}
             /\ \A fid \in DOMAIN sweep[s].results : sweep[s].results[fid].state_code = s)
    /\ [][\A s, t \in StateCodes :
             (sweep'[s].results # sweep[s].results /\ sweep'[t].results # sweep[t].results)
                => s = t]_vars

\* Three tasks are at work at once: CA's batch is in flight, TX has written
\* its pattern results and awaits its validation, WY has written its cells.
C11_Witness ==
    /\ sweep["CA"].st = "Batched"
    /\ sweep["TX"].st = "Validating"
    /\ sweep["TX"].writers = {"TX"}
    /\ sweep["WY"].st = "Done"
    /\ sweep["WY"].writers = {"WY"}
    /\ Len(features) = 2

\* C12: a cancelled run persists nothing; what crosses the persistence
\* boundary is the fully materialized WorkflowState of a completed run
\* together with its report, and it is never replaced afterwards.
C12_CancelledNeverPersisted ==
    /\ [](status = "cancelled" => persisted = NothingSaved)
    /\ [](persisted.saved =>
             /\ status = "completed"
             /\ persisted.status = "completed"
             /\ persisted.feature_compliance_results = feature_compliance_results
             /\ Len(feature_compliance_results) = Len(features)
             /\ \A n \in 1..Len(feature_compliance_results) :
                   DOMAIN feature_compliance_results[n].state_compliance_scores = StateCodes
             /\ persisted.executive_report = executive_report
             /\ executive_report.generated)
    /\ [][persisted.saved => persisted' = persisted]_vars

\* The token was seen between two batches: WY's results were in, CA's batch
\* had not begun, and the run ended cancelled.
C12_Witness ==
    /\ status = "cancelled"
    /\ step = "done"
    /\ cancel
    /\ sweep["WY"].st = "Done"
    /\ sweep["CA"].st = "Pending"
    /\ persisted = NothingSaved

\* C13: when at aggregation some feature has no entry for some state, the
\* run ends failed with AggregationInvariantViolation, without a report and
\* with nothing saved; a report or a saved or completed run has every entry.
SomeEntryMissing ==
    \E i \in 1..Len(features) : \E s \in StateCodes :
       features[i].feature_id \notin DOMAIN sweep[s].results

C13_IncompleteAborts ==
    /\ [][(step = "aggregate" /\ SomeEntryMissing) =>
             /\ status' = "failed"
             /\ error' = "AggregationInvariantViolation"
             /\ step' = "done"]_vars
    /\ [](error = "AggregationInvariantViolation" =>
             /\ status = "failed"
             /\ ~executive_report.generated
             /\ ~persisted.saved)
    /\ []((status = "completed" \/ executive_report.generated \/ persisted.saved) =>
             ~SomeEntryMissing)

\* The run was aborted because the second feature had no entry for TX, its
\* only missing entry.
C13_Witness ==
    /\ step = "done"
    /\ error = "AggregationInvariantViolation"
    /\ Len(features) = 2
    /\ DOMAIN sweep["TX"].results = {1}
    /\ DOMAIN sweep["CA"].results = {1, 2}
    /\ DOMAIN sweep["WY"].results = {1, 2}
    /\ executive_report = NoReport
    /\ persisted = NothingSaved

\* C15: every prompt a stage or the sweep builds includes at most 200
\* characters of the feature description and at most 3 technical
\* requirements, however long the feature's own were.
C15_PromptsBounded ==
    prompt # NoPrompt =>
       /\ prompt.builder \in {StageNames[k] : k \in 1..NumStages} \cup {SweepAgent}
       /\ prompt.feature_description <= DescriptionCap
       /\ prompt.technical_requirements <= RequirementsCap

\* The sweep built a prompt from a feature whose description and requirement
\* list both exceed their caps.
C15_Witness ==
    /\ prompt.builder = SweepAgent
    /\ prompt.description_length > DescriptionCap
    /\ prompt.requirements_count > RequirementsCap
    /\ prompt.feature_description = DescriptionCap
    /\ prompt.technical_requirements = RequirementsCap

\* C16: a high-risk state is analysed by a generation-backed batch call;
\* any other state issues no generation call unless pattern matching leaves
\* a feature ambiguous, and then it issues exactly one validation call (the
\* resilient call's retry of that call apart).
IssuesCall(s) ==
    /\ sweep[s].st = "Pending"
    /\ sweep[s].requests = 0
    /\ sweep'[s].call = IssueCall
    /\ sweep'[s].st = IF s \in HighRiskStates THEN "Batched" ELSE "Validating"
    /\ s \notin HighRiskStates => \E i \in 1..Len(features) : Ambiguous(features[i], s)

RetriesCall(s) ==
    /\ sweep[s].call.st = "inflight"
    /\ sweep'[s].call.st = "inflight"
    /\ sweep'[s].call.attempts = sweep[s].call.attempts + 1
    /\ sweep'[s].call.attempts <= 1 + MaxRetries
    /\ sweep'[s].call.failure # "none"
    /\ sweep'[s].st = sweep[s].st

C17_OneCombinedRequest ==
    /\ [][\A s \in StateCodes :
             sweep[s].st # "Pending" => sweep'[s].st # "Pending"]_vars
    /\ [](\A m, n \in 1..Len(sweepOrder) : sweepOrder[m] = sweepOrder[n] => m = n)
    /\ [](\A s \in StateCodes :
             /\ sweep[s].st = "Batched" => sweep[s].requests = sweep[s].call.attempts
             /\ sweep[s].requests <= 1 + MaxRetries
             /\ sweep[s].st \in {"Success", "Fallback", "Done"} =>
                   /\ DOMAIN sweep[s].results = FeatureIds(features)
                   /\ \A fid \in DOMAIN sweep[s].results :
                         sweep[s].results[fid].state_code = s)

\* The one batch request of CA returned an entry for each of two features.
C17_Witness ==
    /\ Len(features) = 2
    /\ sweep["CA"].st = "Success"
    /\ sweep["CA"].requests = 1
    /\ DOMAIN sweep["CA"].results = {features[1].feature_id, features[2].feature_id}
    /\ features[1].feature_id # features[2].feature_id

\* C18: every place that reports a (feature, state) pair as compliant or
\* non-compliant applies the same cutoff: the dashboard counts an entry of a
\* saved run as compliant exactly when the executive report puts it in its
\* low-risk bucket.
SavedEntries ==
    UNION {{persisted.feature_compliance_results[n].state_compliance_scores[s] :
               s \in DOMAIN persisted.feature_compliance_results[n].state_compliance_scores} :
           n \in 1..Len(persisted.feature_compliance_results)}

C18_SameCutoff ==
    persisted.saved =>
       \A e \in SavedEntries :
          /\ DashboardCompliant(e.compliance_score) <=> ReportLowRisk(e.compliance_score)
          /\ DashboardNonCompliant(e.compliance_score) <=> ~ReportLowRisk(e.compliance_score)

\* C19: a completed run stays completed and gets its ExecutiveReport exactly
\* once, at the end of the run, whatever its results: the report is there
\* before the run is saved, it is never produced again, and while the
\* Generation Client is unavailable its narrative is filled from a template.
C19_ReportExactlyOnce ==
    /\ [][status = "completed" => status' = "completed"]_vars
    /\ [][executive_report.generated => executive_report' = executive_report]_vars
    /\ [][executive_report' # executive_report =>
             /\ status = "completed"
             /\ step = "report"
             /\ executive_report'.generated]_vars
    /\ [](executive_report.generated <=> (status = "completed" /\ step \in {"save", "done"}))
    /\ [](executive_report.generated /\ llmDown => executive_report.narrative_via = "template")
    /\ [](persisted.saved => persisted.executive_report = executive_report)

\* A run without any high-risk feature, analysed while the Generation
\* Client was unavailable, ended with a template-filled report.
C19_Witness ==
    /\ llmDown
    /\ step = "done"
    /\ status = "completed"
    /\ executive_report.generated
    /\ executive_report.narrative_via = "template"
    /\ executive_report.high_risk_features = 0
    /\ executive_report.low_risk_features = Len(features)
    /\ persisted.executive_report = executive_report

\* C20: the recommendations of an ExecutiveReport hold no entry twice and
\* at most 15 entries, however many features there are and however many
\* recommendations each of them has.
C20_RecommendationsDedupedCapped ==
    executive_report.generated =>
       LET recs == executive_report.recommendations
       IN  /\ \A i, j \in 1..Len(recs) : recs[i] = recs[j] => i = j
           /\ Len(recs) <= 15
           /\ \A i \in 1..Len(recs) :
                 \E n \in 1..Len(feature_compliance_results) :
                    \E k \in 1..Len(feature_compliance_results[n].recommendations) :
                       feature_compliance_results[n].recommendations[k] = recs[i]

\* The features of the reported run had more than 15 different
\* recommendations, one of them twice; the report lists 15.
C20_Witness ==
    /\ executive_report.generated
    /\ Len(executive_report.recommendations) = 15
    /\ LET all == AllRecommendations(feature_compliance_results)
       IN  /\ Cardinality({all[i] : i \in 1..Len(all)}) > 15
           /\ \E i, j \in 1..Len(all) : i # j /\ all[i] = all[j]

C23_TolerantParseOrder ==
    /\ [](\A n \in 1..Len(parsing.tried) :
             parsing.tried[n] = <<"strict", "delimiter", "keyword">>[n])
    /\ [][parsing'.tried # parsing.tried /\ parsing'.tried # <<>> =>
             /\ parsing'.tried = Append(parsing.tried, parsing'.tried[Len(parsing'.tried)])
             /\ parsing'.text = parsing.text
             /\ parsing'.tried[Len(parsing'.tried)] = "keyword" =>
                   /\ parsing.tried = <<"strict", "delimiter">>
                   /\ parsing.text.shape = "garbage"
                   /\ parsing.output = NoOutput]_vars
    /\ [](ParsingOver(parsing) =>
             /\ parsing.output.produced_via = "model" <=>
                   parsing.text.shape \in {"strict", "delimited"}
             /\ parsing.output.produced_via = "model" <=>
                   parsing.tried[Len(parsing.tried)] \in {"strict", "delimiter"}
             /\ parsing.output.produced_via = "fallback" <=>
                   parsing.tried[Len(parsing.tried)] = "keyword"
             /\ parsing.output.produced_via = ProducedVia(parsing.text.shape)
             /\ parsing.output.stage_name = StageNames[parsing.stage])

\* The strict parse and the delimiter scan of a text failed, and keyword
\* matching gave the risk assessor's output.
C23_Witness ==
    /\ parsing.tried = <<"strict", "delimiter", "keyword">>
    /\ parsing.text.shape = "garbage"
    /\ parsing.output.produced_via = "fallback"
    /\ parsing.output.stage_name = "risk_assessor"

\* C24: every state's analysis follows Batched -> {Success | Failed ->
\* Fallback} -> Done: every state eventually reaches Done, through exactly
\* one of Success or Fallback, and never returns to Batched.
BatchMachine ==
    {<<"Pending", "Batched">>, <<"Batched", "Success">>, <<"Batched", "Failed">>,
     <<"Failed", "Fallback">>, <<"Success", "Done">>, <<"Fallback", "Done">>}

C25_NonCompliantBelowCutoff ==
    persisted.saved =>
       \A e \in SavedEntries :
          /\ MapValue(e.compliance_score) = 1 <=> e.compliance_score < 40
          /\ DashboardNonCompliant(e.compliance_score) <=> e.compliance_score < 40
          /\ e.compliance_score = 100 => DashboardCompliant(e.compliance_score)

\* C26: a protected page renders its content only while localStorage holds
\* a username.  Once signOut removed it, every render of a protected page
\* returns nothing and sends the browser to the login page, until a login
\* request came back ok.
C26_ProtectedPagesGuarded ==
    /\ [][view'.renders # view.renders =>
             /\ view'.page \in {"form", "dashboard", "logs"}
             /\ view'.output = "content" <=> username # "none"
             /\ view'.output = "content" => location' = location
             /\ username = "none" =>
                   /\ view'.output = "nothing"
                   /\ location' = "login"]_vars
    /\ [][(username # "none" /\ username' = "none" /\ location' # location) =>
             location' = "login"]_vars
    /\ [][(username = "none" /\ username' # "none") =>
             /\ login'.answered = login.answered + 1
             /\ login'.last = "ok"]_vars

\* After a sign-out the dashboard was opened and rendered: it showed
\* nothing and the browser is at the login page.
C26_Witness ==
    /\ username = "none"
    /\ view.page = "dashboard"
    /\ view.output = "nothing"
    /\ view.renders = 2
    /\ location = "login"

\* C27: checkLogin stores the username and redirects to the application only
\* when the login request came back ok; after a response that is not ok or a
\* thrown network error localStorage and the page are as before.
C27_LoginOnlyOnOk ==
    /\ [][login'.answered # login.answered =>
             IF login'.last = "ok"
             THEN /\ username' \in login.pending
                  /\ location' = "form"
             ELSE /\ username' = username
                  /\ location' = location
                  /\ location = "login"]_vars
    /\ [][(username' # username /\ username' # "none") =>
             /\ login'.answered # login.answered
             /\ login'.last = "ok"]_vars
    /\ [](login.last \in {"none", "ok", "bad_body", "not_ok", "network_error"})

\* A user was logged in, opened the login page and sent a request for
\* another account, which was refused: the stored username is still theirs
\* and the browser still at the login page.
C27_Witness ==
    /\ login.last = "not_ok"
    /\ login.answered = 2
    /\ username \in {"ann", "bob"}
    /\ location = "login"

\* An attempt of fetchData that is over: without a prdId, resolved or thrown.
Settled(fs, n) == n \in 1..Len(fs) /\ fs[n].st # "in flight"

\* Attempt n of fetchData ends in this step.
AttemptEnds(n) == Settled(fetches', n) /\ ~Settled(fetches, n)

\* C28: on the Dashboard every attempt of fetchData ends, and ends with
\* loading = false, whether the prdId is missing, the fetch resolves or the
\* fetch throws; dashboardData is assigned only in the step in which a fetch
\* resolved; and with the last attempt over loading stays false.
C28_FetchLeavesLoadingFalse ==
    /\ [][/\ \A n \in 1..MaxFetches : AttemptEnds(n) => loading' = FALSE
          /\ dashboardData' # dashboardData =>
                \E n \in 1..MaxFetches : AttemptEnds(n) /\ fetches'[n].st = "ok"]_vars
    /\ \A n \in 1..MaxFetches :
          (n \in 1..Len(fetches) /\ ~Settled(fetches, n)) ~> Settled(fetches, n)
    /\ <>[](loading = FALSE)

C28_Witness ==
    /\ loading = FALSE
    /\ \E a, b \in 1..Len(fetches) : fetches[a].st = "ok" /\ fetches[b].st = "threw"
    /\ dashboardData # NoData

\* C29: when the prdId changed while an earlier fetch was still in flight,
\* then once every fetch has resolved, and the one for the current prdId
\* succeeded, dashboardData is the response for the current prdId: a late
\* response for an older prdId has not replaced it.
C29_LateResponseNeverReplaces ==
    ( /\ prdId # NoPrdId
      /\ board.mounted /\ board.prdId = prdId /\ "fetchData" \notin effects
      /\ fetches # <<>>
      /\ \A n \in 1..Len(fetches) : Settled(fetches, n)
      /\ fetches[Len(fetches)].st = "ok" )
    => dashboardData.prd = prdId

\* C30: the Dashboard never reads a field of a null selectedFeature while it
\* builds the feature options: at every render that passes the loading guard
\* and the no-data guard, if featureOptions is non-empty then selectedFeature
\* is non-null, whatever the order of the fetches, the effect on
\* dashboardData and the selections of a feature.
C30_SelectedFeatureNonNull ==
    /\ board.output # "TypeError"
    /\ (board.mounted /\ board.output \notin {"spinner", "no data"} /\ board.featureOptions # <<>>)
          => board.selectedFeature # NoFeature

C30_Witness ==
    /\ board.output = "dashboard"
    /\ Len(board.featureOptions) = MaxResults
    /\ board.selectedFeature # FirstFeature(board.featureOptions)
    /\ board.dashboardData.prd # prdId

====
